---- MODULE Spec2Model ----
(***************************************************************************)
(* Model of lastfm-spotify-syncer (src/syncer/app.py).                     *)
(*                                                                         *)
(* The state machines of the module, each with its specification:         *)
(*   Spec          Syncer.sync_spotify_likes_with_lastfm and the processed *)
(*                 track cache file (.cache_processed), run repeatedly;    *)
(*   SpecResolver  Syncer._find_search_match, the tiered match resolver;   *)
(*   SpecPlaylist  Syncer.sync_liked_tracks_from_lastfm_with_spotify, one  *)
(*                 run, calling the resolver for every Last.fm track;      *)
(*   SpecChunks    Syncer._add_liked_tracks_to_spotify on long lists;      *)
(*   SpecPodcasts  PodcastsNotificationService                             *)
(*                 (src/podcasts/notification_service.py);                 *)
(*   SpecFetch     SpotifyService.get_liked_tracks, the paged generator,   *)
(*                 driven to its end by the loop that consumes it.         *)
(***************************************************************************)
EXTENDS Integers, Sequences, FiniteSets, TLC

\* ------------------------------------------------------------------ bounds
\* Number of distinct Spotify track ids.
NumIds == 2
\* Longest liked-tracks sequence the source yields in one run.
MaxLiked == 2
\* Number of runs of sync_spotify_likes_with_lastfm.
MaxRuns == 2
\* Most (search item, artist) candidates in one search result.
MaxCands == 3
\* Number of distinct Spotify track uris the playlist run meets.
NumUris == 2
\* Most loved tracks load_cache() returns to the playlist run.
MaxLoved == 2
\* Most candidates in a search result of the playlist run.
MaxSyncCands == 1
\* Longest list handed to _add_liked_tracks_to_spotify.
MaxLoad == 250
\* Most sources registered with a PodcastsNotificationService.
MaxSources == 2
\* Most subscribers registered with a PodcastsNotificationService.
MaxSubscibers == 2
\* Number of distinct podcast items.
NumItems == 2
\* Most items one get_items_after call returns.
MaxItems == 2
\* Most items in one current_user_saved_tracks response (the code asks for
\* limit = 50).
MaxPage == 2
\* Largest 'total' a response reports.
MaxTotal == 3
\* Most tracks the generator is handed over all its responses.
MaxFetched == 4

\* --------------------------------------------------------------- constants
\* match_ratio, the auto-accept threshold on each of the two ratios.
MatchRatio == 85
\* The threshold on song_ratio + artist_ratio below which nobody is asked.
CombinedRatio == 140
\* The size do_chunk is called with.
ChunkSize == 100

VARIABLES
    \* --- sync_spotify_likes_with_lastfm
    cache_file,        \* the file self._cache_file on disk
    liked,             \* what spotify_service.get_liked_tracks() yields (ids)
    pc,                \* position of the run
    cached_track_ids,  \* local of the run (line 123)
    new_ids,           \* local of the run (line 124)
    pos,               \* index of the generator into liked
    loved,             \* tracks loved on Last.fm (effect of like_track)
    runs,              \* runs started so far
    \* --- observation of a run (history)
    calls,             \* calls made on lastfm_service in this run, in order
    writes,            \* writes of the cache file in this run
    file0,             \* the cache file as it was when the run started
    error,             \* the exception that ended the run ("" when none)
    changed,           \* the source sequence changed since the last run
    repeat,            \* this run follows a completed run on the same source
    \* --- _find_search_match
    search_results,    \* the argument: [total, items]
    interactive,       \* stdin is a terminal with a human at it
    rpc,               \* position of the resolver
    item_i,            \* index of search_item in items
    artist_j,          \* index of artist in search_item['artists']
    result,            \* the value returned
    \* --- observation of a resolver call (history)
    scored,            \* candidates whose ratios were computed, in order
    prompts,           \* calls of input(): the candidate and the line read
    \* --- sync_liked_tracks_from_lastfm_with_spotify
    playlist,          \* the 'lastfm_liked' playlist on Spotify as the run finds it
    lf_tracks,         \* what load_cache() returns: the loved tracks
    ppc,               \* position of the run
    track_k,           \* index of track in load_cache()
    track_uris,        \* local of the run (line 160)
    tracks_to_load,    \* local of the run (line 152)
    missed_tracks,     \* local of the run (line 153)
    chunk_pos,         \* position of the iterator of do_chunk
    missed_file,       \* the file .missed_spotify_tracks
    \* --- observation of a playlist run (history)
    searches,          \* calls of spotify.search in this run
    outcomes,          \* what _find_search_match returned, track by track
    add_calls,         \* the items of each playlist_add_items call, in order
    \* --- PodcastsNotificationService
    sources,           \* self._sources: [cls, last_processed_item] each
    subscibers,        \* self._subscibers
    qpc,               \* position of check_new_podcasts
    source_n,          \* index of source in self._sources
    new_items,         \* local items of check_new_podcasts (line 75)
    item,              \* local of check_new_podcasts (lines 73 and 76)
    item_n,            \* index of item in new_items
    \* --- observation of the service (history)
    errors,            \* what a registration raised ValueError for
    sources0,          \* self._sources when check_new_podcasts was called
    returned,          \* what get_items_after returned, source by source
    notified,          \* calls of the subscribers: [sub, item, source]
    \* --- SpotifyService.get_liked_tracks
    fpc,               \* position of the generator
    all_fetched,       \* local of the generator (lines 63 and 75)
    fetched_count,     \* local of the generator (lines 65 and 74)
    offset,            \* local of the generator (lines 67 and 76)
    response,          \* local of the generator (line 71): [items, total]
    track_n,           \* index of track in new_tracks (line 80)
    \* --- observation of the generator (history)
    yielded            \* the ids yielded so far, in order

syncVars == <<cache_file, liked, pc, cached_track_ids, new_ids, pos, loved,
              runs, calls, writes, file0, error, changed, repeat>>

resolverVars == <<search_results, interactive, rpc, item_i, artist_j, result,
                  scored, prompts>>

playlistVars == <<playlist, lf_tracks, ppc, track_k, track_uris, tracks_to_load,
                  missed_tracks, chunk_pos, missed_file, searches, outcomes,
                  add_calls>>

podcastVars == <<sources, subscibers, qpc, source_n, new_items, item, item_n,
                 errors, sources0, returned, notified>>

fetchVars == <<fpc, all_fetched, fetched_count, offset, response, track_n,
               yielded>>

nonSyncVars == <<resolverVars, playlistVars, podcastVars, fetchVars>>

nonResolverVars == <<syncVars, playlistVars, podcastVars, fetchVars>>

nonFetchVars == <<syncVars, resolverVars, playlistVars, podcastVars>>

nonPodcastVars == <<syncVars, resolverVars, playlistVars, fetchVars>>

vars == <<syncVars, resolverVars, playlistVars, podcastVars, fetchVars>>

\* ------------------------------------------------------------- data model
TrackIds == 1..NumIds

RECURSIVE SeqsUpTo(_, _)
\* All sequences over S of length at most n.
SeqsUpTo(S, n) ==
    IF n = 0 THEN {<<>>}
    ELSE LET shorter == SeqsUpTo(S, n - 1)
         IN shorter \cup {Append(s, x) : s \in {t \in shorter : Len(t) = n - 1}, x \in S}

\* The sequences get_liked_tracks can yield: ids in API order; an id may
\* repeat (the offset pagination re-reads items when the library shifts).
LikedSeqs == SeqsUpTo(TrackIds, MaxLiked)

Range(s) == {s[k] : k \in 1..Len(s)}

\* The orders list(a_set) may produce: every arrangement of the set.
Orders(S) == {s \in SeqsUpTo(S, Cardinality(S)) : Range(s) = S /\ Len(s) = Cardinality(S)}

\* The cache file: absent, blank text, or a JSON list of ids.
AbsentFile == [kind |-> "absent", ids |-> <<>>]
BlankFile == [kind |-> "blank", ids |-> <<>>]
JsonFile(ids) == [kind |-> "json", ids |-> ids]

\* Mutant: the load forgets what the file holds (every load reads as []).
LoadProcessedTracksForgets(file) ==
    [ok |-> file.kind # "absent", ids |-> <<>>]

\* _load_processed_tracks: open(..., 'r+') raises FileNotFoundError when the
\* file is absent; blank text reads as '[]'; otherwise json.loads of the text.
LoadProcessedTracks(file) ==
    IF file.kind = "absent" THEN [ok |-> FALSE, ids |-> <<>>]
    ELSE IF file.kind = "blank" THEN [ok |-> TRUE, ids |-> <<>>]
    ELSE [ok |-> TRUE, ids |-> file.ids]

\* _dump_processed_tracks: open(..., 'w') and json.dump of the list.
DumpProcessedTracks(track_ids) == JsonFile(track_ids)

\* Mutant: the membership test looks at the ids of this run, not the cache.
IsCachedInNewIds(track_id, cached) == track_id \in new_ids

\* line 128: if track_id in cached_track_ids
IsCached(track_id, cached) == track_id \in cached

\* Mutant: the checkpoint tests the merged cache, not the difference.
NeedsDumpAnyCache(new, cached) == (new \cup cached) # {}

\* line 138: if new_ids.difference(cached_track_ids)
NeedsDump(new, cached) == (new \ cached) # {}

\* Mutant: the checkpoint stores the new ids alone.
NewCacheOnlyNew(cached, new) == new

\* line 139: new_cache = cached_track_ids.union(new_ids)
NewCache(cached, new) == cached \cup new

Call(op, id, ok) == [op |-> op, id |-> id, ok |-> ok]

Between == pc \in {"idle", "done", "failed"}

\* -------------------------------------------------- the resolver's data
\* Values of fuzz.ratio (0..100) on the lowercased strings: one below every
\* threshold, and the two on either side of match_ratio.
Ratios == {55, 84, 85}

\* search_item['artists']: the ratio of each artist's name to the Last.fm
\* artist; a Spotify track has at least one artist.
ArtistLists(n) == SeqsUpTo(Ratios, n) \ {<<>>}

RECURSIVE SearchItems(_, _)
\* search_results['tracks']['items'] holding at most n artists in all; the
\* k-th item of a result has the uri k, song_ratio is the ratio of its name
\* to the Last.fm title.
SearchItems(n, k) ==
    IF n = 0 THEN {<<>>}
    ELSE {<<>>} \cup UNION {
            {<<[uri |-> k, song_ratio |-> sr, artists |-> a]>> \o rest :
                 sr \in Ratios, rest \in SearchItems(n - Len(a), k + 1)}
            : a \in ArtistLists(n)}

\* What spotify.search returns: total counts every hit, items is the first
\* page of them.
SearchResults ==
    UNION {{[total |-> t, items |-> its] :
               t \in IF its = <<>> THEN {0} ELSE {Len(its), Len(its) + 1}}
           : its \in SearchItems(MaxCands, 1)}

\* The lines input() may read.
Answers == {"y", " Y ", "n", "yes"}

\* Mutant: the answer is compared as typed.
AnswerIsYesAsTyped(raw) == raw = "y"

\* line 196-197: input(message).lower().strip() == 'y'
AnswerIsYes(raw) ==
    LET lowered == IF raw = " Y " THEN " y " ELSE raw
        stripped == IF lowered = " y " THEN "y" ELSE lowered
    IN stripped = "y"

\* Mutant: the auto-accept threshold is exclusive.
IsAutoAcceptStrict(song_ratio, artist_ratio) ==
    song_ratio > MatchRatio /\ artist_ratio > MatchRatio

\* line 213: song_ratio >= match_ratio and artist_ratio >= match_ratio
IsAutoAccept(song_ratio, artist_ratio) ==
    song_ratio >= MatchRatio /\ artist_ratio >= MatchRatio

\* Mutant: the combined threshold is exclusive.
IsAmbiguousStrict(song_ratio, artist_ratio) ==
    song_ratio + artist_ratio > CombinedRatio

\* line 217: song_ratio + artist_ratio >= 140 (reached when line 213 is false)
IsAmbiguous(song_ratio, artist_ratio) ==
    song_ratio + artist_ratio >= CombinedRatio

\* Mutant: a candidate that is not taken ends its item (break of the inner loop).
NextCandidateSkipsArtists(items, i, j) == <<i + 1, 1>>

\* lines 201-202: the nested loops, next artist of the item or next item.
NextCandidate(items, i, j) ==
    IF j < Len(items[i].artists) THEN <<i, j + 1>> ELSE <<i + 1, 1>>

\* line 191 and the end of the function: None.
NoMatch == [matched |-> FALSE, uri |-> 0, cand |-> <<0, 0>>]

\* lines 204-208: SyncTrack(..., spotify_track_uri=search_item['uri'])
SyncTrack(items, i, j) == [matched |-> TRUE, uri |-> items[i].uri, cand |-> <<i, j>>]

NoSearch == [total |-> 0, items |-> <<>>]

ResolverIdle ==
    /\ search_results = NoSearch
    /\ interactive = TRUE
    /\ rpc = "idle"
    /\ item_i = 1
    /\ artist_j = 1
    /\ result = NoMatch
    /\ scored = <<>>
    /\ prompts = <<>>

\* ---------------------------------------------- the playlist run's data
TargetUris == 1..NumUris

RECURSIVE SearchItemsOver(_, _)
\* search_results['tracks']['items'] holding at most n artists in all, the
\* uri of an item being any of U.
SearchItemsOver(n, U) ==
    IF n = 0 THEN {<<>>}
    ELSE {<<>>} \cup UNION {
            {<<[uri |-> u, song_ratio |-> sr, artists |-> a]>> \o rest :
                 u \in U, sr \in Ratios, rest \in SearchItemsOver(n - Len(a), U)}
            : a \in ArtistLists(n)}

\* What spotify.search returns for the query of one loved track.
SyncSearchResults ==
    {[total |-> Len(its), items |-> its] : its \in SearchItemsOver(MaxSyncCands, TargetUris)}

\* The 'lastfm_liked' playlist: found or not among current_user_playlists().
\* The client answers in pages (get_liked_tracks walks them with limit and
\* offset, lines 66-76); line 159 calls playlist_items once, without offset,
\* and reads the 'items' of that one response: page holds the uris of those
\* items, beyond the uris the playlist holds only in items after them.
Playlists ==
    {[exists |-> FALSE, page |-> {}, beyond |-> {}]}
    \cup UNION {{[exists |-> TRUE, page |-> pg, beyond |-> bd] :
                      bd \in SUBSET (TargetUris \ pg)} :
                  pg \in SUBSET TargetUris}

\* load_cache(): the loved tracks, numbered in order.
LovedTracks == {[k \in 1..n |-> k] : n \in 0..MaxLoved}

\* Mutant: a missing playlist goes unnoticed.
HasPlaylistAlways(pl) == TRUE

\* lines 155-156: playlist = get_custom_liked_playlist(); if not playlist
HasPlaylist(pl) == pl.exists

\* line 173: sync_track and sync_track.spotify_track_uri not in track_uris
IsNewMatch(sync_track, uris) == sync_track.matched /\ sync_track.uri \notin uris

Min(a, b) == IF a <= b THEN a ELSE b

\* Mutant: the slice takes one item too many.
IsliceOneMore(s, from, size) == SubSeq(s, from, Min(from + size, Len(s)))

\* line 229: tuple(islice(it, size)), it standing at index from of s.
Islice(s, from, size) == SubSeq(s, from, Min(from + size - 1, Len(s)))

NoMissedFile == [written |-> FALSE, tracks |-> <<>>]

\* No playlist run is in progress.
PlaylistOff ==
    /\ playlist = [exists |-> FALSE, page |-> {}, beyond |-> {}]
    /\ lf_tracks = <<>>
    /\ ppc = "off"
    /\ track_k = 1
    /\ track_uris = {}
    /\ tracks_to_load = <<>>
    /\ missed_tracks = <<>>
    /\ chunk_pos = 1
    /\ missed_file = NoMissedFile
    /\ searches = 0
    /\ outcomes = <<>>
    /\ add_calls = <<>>

\* ------------------------------------------------- the podcast service's data
PodcastItems == 1..NumItems

\* None, where an item is expected.
None == 0

\* What get_items_after returns; None and [] are both the empty list after
\* the 'or []' of line 75.
ItemLists == SeqsUpTo(PodcastItems, MaxItems)

\* The classes of the objects handed to register_source: PodcastInitSource,
\* and a class written against the AbstractPodcastSource of
\* notification_service.py.
SourceClasses == {"PodcastInitSource", "ServiceSource"}

\* The classes an instance of cls is an instance of.  PodcastInitSource
\* derives from sources.base.BaseSource, which derives from the
\* AbstractPodcastSource of sources/base.py; notification_service.py defines
\* a class of its own with the same name.
Bases(cls) ==
    IF cls = "PodcastInitSource"
    THEN {"podcasts.sources.podcast_init_source.PodcastInitSource",
          "podcasts.sources.base.BaseSource",
          "podcasts.sources.base.AbstractPodcastSource"}
    ELSE {"ServiceSource",
          "podcasts.notification_service.AbstractPodcastSource"}

\* line 57: isinstance(source, AbstractPodcastSource), the name being bound
\* in notification_service.py to the class of its line 26.
IsInstanceOfAbstractPodcastSource(cls) ==
    "podcasts.notification_service.AbstractPodcastSource" \in Bases(cls)

\* No PodcastsNotificationService exists.
PodcastsOff ==
    /\ sources = <<>>
    /\ subscibers = <<>>
    /\ qpc = "off"
    /\ source_n = 1
    /\ new_items = <<>>
    /\ item = None
    /\ item_n = 1
    /\ errors = {}
    /\ sources0 = <<>>
    /\ returned = <<>>
    /\ notified = <<>>

\* ------------------------------------------------ the paged fetch's data
\* response['items'] of one current_user_saved_tracks call: track ids.
Pages == SeqsUpTo(TrackIds, MaxPage)

\* What current_user_saved_tracks answers: the items of the page and the
\* 'total' of the library as the service reports it with that page.
Responses == {[items |-> its, total |-> t] : its \in Pages, t \in 0..MaxTotal}

NoResponse == [items |-> <<>>, total |-> 0]

\* No generator of get_liked_tracks exists.
FetchOff ==
    /\ fpc = "off"
    /\ all_fetched = FALSE
    /\ fetched_count = 0
    /\ offset = 0
    /\ response = NoResponse
    /\ track_n = 1
    /\ yielded = <<>>

\* ------------------------------------------------------------------- Init
Init ==
    /\ cache_file \in {AbsentFile, BlankFile}
    /\ liked \in LikedSeqs
    /\ pc = "idle"
    /\ cached_track_ids = {}
    /\ new_ids = {}
    /\ pos = 1
    /\ loved = {}
    /\ runs = 0
    /\ calls = <<>>
    /\ writes = 0
    /\ file0 = cache_file
    /\ error = ""
    /\ changed = FALSE
    /\ repeat = FALSE
    /\ ResolverIdle
    /\ PlaylistOff
    /\ PodcastsOff
    /\ FetchOff

\* ---------------------------------------------------------------- actions
\* Between two runs the user likes or unlikes tracks on Spotify: the next run
\* sees another sequence.
SourceChanges ==
    /\ UNCHANGED nonSyncVars
    /\ Between /\ runs < MaxRuns /\ ~changed
    /\ \E s \in LikedSeqs \ {liked} : liked' = s
    /\ changed' = TRUE
    /\ UNCHANGED <<cache_file, pc, cached_track_ids, new_ids, pos, loved, runs,
                   calls, writes, file0, error, repeat>>

\* Between two runs the user creates the cache file by hand (touch).
TouchCacheFile ==
    /\ UNCHANGED nonSyncVars
    /\ Between /\ runs < MaxRuns
    /\ cache_file.kind = "absent"
    /\ cache_file' = BlankFile
    /\ UNCHANGED <<liked, pc, cached_track_ids, new_ids, pos, loved, runs,
                   calls, writes, file0, error, changed, repeat>>

\* lines 123-124: load the cache, start with no new ids.
StartRun ==
    /\ UNCHANGED nonSyncVars
    /\ Between /\ runs < MaxRuns
    /\ runs' = runs + 1
    /\ calls' = <<>>
    /\ writes' = 0
    /\ file0' = cache_file
    /\ repeat' = (pc = "done" /\ ~changed)
    /\ changed' = FALSE
    /\ LET r == LoadProcessedTracks(cache_file)
       IN IF r.ok
          THEN /\ cached_track_ids' = Range(r.ids)
               /\ new_ids' = {}
               /\ pos' = 1
               /\ pc' = "iter"
               /\ error' = ""
          ELSE /\ pc' = "failed"
               /\ error' = "FileNotFoundError"
               /\ UNCHANGED <<cached_track_ids, new_ids, pos>>
    /\ UNCHANGED <<cache_file, liked, loved>>

\* line 126: the generator raises while fetching a page.
FetchFails ==
    /\ UNCHANGED nonSyncVars
    /\ pc = "iter"
    /\ pc' = "failed"
    /\ error' = "get_liked_tracks"
    /\ UNCHANGED <<cache_file, liked, cached_track_ids, new_ids, pos, loved,
                   runs, calls, writes, file0, changed, repeat>>

\* lines 126-130: next track of the generator; skip it when cached.
NextTrack ==
    /\ UNCHANGED nonSyncVars
    /\ pc = "iter"
    /\ pos <= Len(liked)
    /\ IF IsCached(liked[pos], cached_track_ids)
       THEN pos' = pos + 1 /\ pc' = "iter"
       ELSE pos' = pos /\ pc' = "get_track"
    /\ UNCHANGED <<cache_file, liked, cached_track_ids, new_ids, loved, runs,
                   calls, writes, file0, error, changed, repeat>>

\* Mutant: a get_track that raises is swallowed and the loop goes on.
GetTrackSkipsOnError ==
    /\ UNCHANGED nonSyncVars
    /\ pc = "get_track"
    /\ \E ok \in BOOLEAN :
        /\ calls' = Append(calls, Call("get_track", liked[pos], ok))
        /\ pc' = IF ok THEN "like_track" ELSE "iter"
        /\ pos' = IF ok THEN pos ELSE pos + 1
        /\ error' = IF ok THEN error ELSE "get_track"
    /\ UNCHANGED <<cache_file, liked, cached_track_ids, new_ids, loved,
                   runs, writes, file0, changed, repeat>>

\* line 132: lastfm_service.get_track returns or raises.
GetTrack ==
    /\ UNCHANGED nonSyncVars
    /\ pc = "get_track"
    /\ \E ok \in BOOLEAN :
        /\ calls' = Append(calls, Call("get_track", liked[pos], ok))
        /\ pc' = IF ok THEN "like_track" ELSE "failed"
        /\ error' = IF ok THEN error ELSE "get_track"
    /\ UNCHANGED <<cache_file, liked, cached_track_ids, new_ids, pos, loved,
                   runs, writes, file0, changed, repeat>>

\* Mutant: the cache is dumped after every like (persist after each success).
LikeTrackPersistsEach ==
    /\ UNCHANGED nonSyncVars
    /\ pc = "like_track"
    /\ \E ok \in BOOLEAN :
        /\ calls' = Append(calls, Call("like_track", liked[pos], ok))
        /\ IF ok
           THEN /\ loved' = loved \cup {liked[pos]}
                /\ new_ids' = new_ids \cup {liked[pos]}
                /\ \E order \in Orders(cached_track_ids \cup new_ids \cup {liked[pos]}) :
                      cache_file' = DumpProcessedTracks(order)
                /\ pos' = pos + 1
                /\ pc' = "iter"
                /\ error' = error
           ELSE /\ pc' = "failed"
                /\ error' = "like_track"
                /\ UNCHANGED <<loved, new_ids, pos, cache_file>>
    /\ UNCHANGED <<liked, cached_track_ids, runs, writes, file0, changed, repeat>>

\* Mutant: the id is recorded before like_track is called.
LikeTrackRecordsFirst ==
    /\ UNCHANGED nonSyncVars
    /\ pc = "like_track"
    /\ new_ids' = new_ids \cup {liked[pos]}
    /\ \E ok \in BOOLEAN :
        /\ calls' = Append(calls, Call("like_track", liked[pos], ok))
        /\ IF ok
           THEN /\ loved' = loved \cup {liked[pos]}
                /\ pos' = pos + 1
                /\ pc' = "iter"
                /\ error' = error
           ELSE /\ pc' = "failed"
                /\ error' = "like_track"
                /\ UNCHANGED <<loved, pos>>
    /\ UNCHANGED <<cache_file, liked, cached_track_ids, runs, writes, file0,
                   changed, repeat>>

\* lines 135-136: lastfm_service.like_track returns or raises; new_ids.add.
LikeTrack ==
    /\ UNCHANGED nonSyncVars
    /\ pc = "like_track"
    /\ \E ok \in BOOLEAN :
        /\ calls' = Append(calls, Call("like_track", liked[pos], ok))
        /\ IF ok
           THEN /\ loved' = loved \cup {liked[pos]}
                /\ new_ids' = new_ids \cup {liked[pos]}
                /\ pos' = pos + 1
                /\ pc' = "iter"
                /\ error' = error
           ELSE /\ pc' = "failed"
                /\ error' = "like_track"
                /\ UNCHANGED <<loved, new_ids, pos>>
    /\ UNCHANGED <<cache_file, liked, cached_track_ids, runs, writes, file0,
                   changed, repeat>>

\* lines 138-142: the source is exhausted; dump the cache when it grew.
Checkpoint ==
    /\ UNCHANGED nonSyncVars
    /\ pc = "iter"
    /\ pos > Len(liked)
    /\ IF NeedsDump(new_ids, cached_track_ids)
       THEN /\ \E order \in Orders(NewCache(cached_track_ids, new_ids)) :
                 cache_file' = DumpProcessedTracks(order)
            /\ writes' = writes + 1
       ELSE UNCHANGED <<cache_file, writes>>
    /\ pc' = "done"
    /\ UNCHANGED <<liked, cached_track_ids, new_ids, pos, loved, runs, calls,
                   file0, error, changed, repeat>>

Next ==
    \/ SourceChanges
    \/ TouchCacheFile
    \/ StartRun
    \/ FetchFails
    \/ NextTrack
    \/ GetTrack
    \/ LikeTrack
    \/ Checkpoint

Spec == Init /\ [][Next]_vars

\* ------------------------------------------------------ _find_search_match
InitResolver ==
    /\ cache_file = AbsentFile
    /\ liked = <<>>
    /\ pc = "idle"
    /\ cached_track_ids = {}
    /\ new_ids = {}
    /\ pos = 1
    /\ loved = {}
    /\ runs = 0
    /\ calls = <<>>
    /\ writes = 0
    /\ file0 = cache_file
    /\ error = ""
    /\ changed = FALSE
    /\ repeat = FALSE
    /\ ResolverIdle
    /\ PlaylistOff
    /\ PodcastsOff
    /\ FetchOff

\* lines 188-199: the call with search result sr; no hit at all returns
\* None at once.
CallFindSearchMatch(sr, tty) ==
    /\ rpc = "idle"
    /\ search_results' = sr
    /\ interactive' = tty
    /\ rpc' = IF sr.total = 0 THEN "returned" ELSE "loop"
    /\ item_i' = 1
    /\ artist_j' = 1
    /\ result' = NoMatch
    /\ scored' = <<>>
    /\ prompts' = <<>>

\* The resolver called on its own, with any search result.
FindSearchMatch ==
    /\ UNCHANGED nonResolverVars
    /\ rpc = "idle"
    /\ \E sr \in SearchResults, tty \in BOOLEAN : CallFindSearchMatch(sr, tty)

\* lines 201-218: the ratios of the next candidate; return it, ask, or go on.
ExamineCandidate ==
    /\ UNCHANGED nonResolverVars
    /\ rpc = "loop"
    /\ item_i <= Len(search_results.items)
    /\ LET items == search_results.items
           song_ratio == items[item_i].song_ratio
           artist_ratio == items[item_i].artists[artist_j]
           next == NextCandidate(items, item_i, artist_j)
       IN /\ scored' = Append(scored, <<item_i, artist_j>>)
          /\ IF IsAutoAccept(song_ratio, artist_ratio)
             THEN /\ result' = SyncTrack(items, item_i, artist_j)
                  /\ rpc' = "returned"
                  /\ UNCHANGED <<item_i, artist_j, prompts>>
             ELSE IF IsAmbiguous(song_ratio, artist_ratio)
             THEN /\ prompts' = Append(prompts, [cand |-> <<item_i, artist_j>>,
                                                 answer |-> "pending"])
                  /\ rpc' = "prompt"
                  /\ UNCHANGED <<item_i, artist_j, result>>
             ELSE /\ item_i' = next[1]
                  /\ artist_j' = next[2]
                  /\ UNCHANGED <<rpc, result, prompts>>
    /\ UNCHANGED <<search_results, interactive>>

\* lines 196-197, 219-222: input() returns a line, or raises EOFError when
\* stdin is not a terminal and holds nothing more.
AnswerPrompt ==
    /\ UNCHANGED nonResolverVars
    /\ rpc = "prompt"
    /\ LET items == search_results.items
           next == NextCandidate(items, item_i, artist_j)
       IN \E raw \in Answers \cup (IF interactive THEN {} ELSE {"EOFError"}) :
            /\ prompts' = [prompts EXCEPT ![Len(prompts)].answer = raw]
            /\ IF raw = "EOFError"
               THEN /\ rpc' = "error"
                    /\ UNCHANGED <<item_i, artist_j, result>>
               ELSE IF AnswerIsYes(raw)
               THEN /\ result' = SyncTrack(items, item_i, artist_j)
                    /\ rpc' = "returned"
                    /\ UNCHANGED <<item_i, artist_j>>
               ELSE /\ item_i' = next[1]
                    /\ artist_j' = next[2]
                    /\ rpc' = "loop"
                    /\ UNCHANGED result
    /\ UNCHANGED <<search_results, interactive, scored>>

\* line 201: the items are exhausted; the function ends, returning None.
LoopEnds ==
    /\ UNCHANGED nonResolverVars
    /\ rpc = "loop"
    /\ item_i > Len(search_results.items)
    /\ result' = NoMatch
    /\ rpc' = "returned"
    /\ UNCHANGED <<search_results, interactive, item_i, artist_j, scored, prompts>>

\* The call is over: the frame of _find_search_match is gone.
ResolverReturns ==
    /\ rpc \in {"returned", "error"}
    /\ search_results' = NoSearch
    /\ interactive' = TRUE
    /\ rpc' = "idle"
    /\ item_i' = 1
    /\ artist_j' = 1
    /\ result' = NoMatch
    /\ scored' = <<>>
    /\ prompts' = <<>>

\* line 172: the caller has the result (or the exception); the next call
\* starts afresh.
CallerResumes ==
    /\ UNCHANGED nonResolverVars
    /\ ppc = "off"
    /\ ResolverReturns

NextResolver ==
    \/ FindSearchMatch
    \/ ExamineCandidate
    \/ AnswerPrompt
    \/ LoopEnds
    \/ CallerResumes

SpecResolver == InitResolver /\ [][NextResolver]_vars

\* -------------------------------- sync_liked_tracks_from_lastfm_with_spotify
\* No run of sync_spotify_likes_with_lastfm is in progress.
SyncOff ==
    /\ cache_file = AbsentFile
    /\ liked = <<>>
    /\ pc = "idle"
    /\ cached_track_ids = {}
    /\ new_ids = {}
    /\ pos = 1
    /\ loved = {}
    /\ runs = 0
    /\ calls = <<>>
    /\ writes = 0
    /\ file0 = cache_file
    /\ error = ""
    /\ changed = FALSE
    /\ repeat = FALSE

InitPlaylist ==
    /\ SyncOff
    /\ ResolverIdle
    /\ PodcastsOff
    /\ FetchOff
    /\ playlist \in Playlists
    /\ lf_tracks \in LovedTracks
    /\ ppc = "idle"
    /\ track_k = 1
    /\ track_uris = {}
    /\ tracks_to_load = <<>>
    /\ missed_tracks = <<>>
    /\ chunk_pos = 1
    /\ missed_file = NoMissedFile
    /\ searches = 0
    /\ outcomes = <<>>
    /\ add_calls = <<>>

\* lines 152-160: the two lists, the playlist or the exception, the uris of
\* the items playlist_items returns.
StartPlaylistSync ==
    /\ UNCHANGED <<syncVars, resolverVars, podcastVars, fetchVars>>
    /\ ppc = "idle"
    /\ tracks_to_load' = <<>>
    /\ missed_tracks' = <<>>
    /\ track_k' = 1
    /\ IF HasPlaylist(playlist)
       THEN /\ track_uris' = playlist.page
            /\ ppc' = "search"
       ELSE /\ ppc' = "failed"
            /\ UNCHANGED track_uris
    /\ UNCHANGED <<playlist, lf_tracks, chunk_pos, missed_file, searches,
                   outcomes, add_calls>>

\* lines 168-172: the search for the next loved track and the call of
\* _find_search_match on what it returns.
SearchTrack ==
    /\ UNCHANGED <<syncVars, podcastVars, fetchVars>>
    /\ ppc = "search"
    /\ track_k <= Len(lf_tracks)
    /\ rpc = "idle"
    /\ \E sr \in SyncSearchResults : CallFindSearchMatch(sr, TRUE)
    /\ searches' = searches + 1
    /\ ppc' = "resolve"
    /\ UNCHANGED <<playlist, lf_tracks, track_k, track_uris, tracks_to_load,
                   missed_tracks, chunk_pos, missed_file, outcomes, add_calls>>

\* lines 172-178: the resolver has returned; the track is staged for the
\* playlist or put on the missed list.
TakeResult ==
    /\ UNCHANGED <<syncVars, podcastVars, fetchVars>>
    /\ ppc = "resolve"
    /\ rpc = "returned"
    /\ ResolverReturns
    /\ outcomes' = Append(outcomes, [matched |-> result.matched, uri |-> result.uri])
    /\ IF IsNewMatch(result, track_uris)
       THEN /\ tracks_to_load' = Append(tracks_to_load,
                                        [track |-> lf_tracks[track_k], uri |-> result.uri])
            /\ UNCHANGED missed_tracks
       ELSE /\ missed_tracks' = Append(missed_tracks, lf_tracks[track_k])
            /\ UNCHANGED tracks_to_load
    /\ track_k' = track_k + 1
    /\ ppc' = "search"
    /\ UNCHANGED <<playlist, lf_tracks, track_uris, chunk_pos, missed_file,
                   searches, add_calls>>

\* lines 180-182: every loved track was handled; load what was staged.
EndOfTracks ==
    /\ UNCHANGED <<syncVars, resolverVars, podcastVars, fetchVars>>
    /\ ppc = "search"
    /\ track_k > Len(lf_tracks)
    /\ ppc' = IF tracks_to_load # <<>> THEN "add" ELSE "store"
    /\ chunk_pos' = 1
    /\ UNCHANGED <<playlist, lf_tracks, track_k, track_uris, tracks_to_load,
                   missed_tracks, missed_file, searches, outcomes, add_calls>>

\* lines 224-233: the next chunk of do_chunk goes to playlist_add_items; the
\* empty tuple is the sentinel that ends the iteration.
AddChunk ==
    /\ UNCHANGED <<syncVars, resolverVars, podcastVars, fetchVars>>
    /\ ppc = "add"
    /\ LET chunk == Islice(tracks_to_load, chunk_pos, ChunkSize)
       IN IF chunk = <<>>
          THEN /\ ppc' = "store"
               /\ UNCHANGED <<chunk_pos, add_calls>>
          ELSE /\ add_calls' = Append(add_calls, [k \in 1..Len(chunk) |-> chunk[k].uri])
               /\ chunk_pos' = chunk_pos + Len(chunk)
               /\ UNCHANGED ppc
    /\ UNCHANGED <<playlist, lf_tracks, track_k, track_uris, tracks_to_load,
                   missed_tracks, missed_file, searches, outcomes>>

\* lines 184-186 and 235-238: the missed tracks are pickled, if there are any.
StoreMissed ==
    /\ UNCHANGED <<syncVars, resolverVars, podcastVars, fetchVars>>
    /\ ppc = "store"
    /\ IF missed_tracks # <<>>
       THEN missed_file' = [written |-> TRUE, tracks |-> missed_tracks]
       ELSE UNCHANGED missed_file
    /\ ppc' = "done"
    /\ UNCHANGED <<playlist, lf_tracks, track_k, track_uris, tracks_to_load,
                   missed_tracks, chunk_pos, searches, outcomes, add_calls>>

NextPlaylist ==
    \/ StartPlaylistSync
    \/ SearchTrack
    \/ ExamineCandidate
    \/ AnswerPrompt
    \/ LoopEnds
    \/ TakeResult
    \/ EndOfTracks
    \/ AddChunk
    \/ StoreMissed

SpecPlaylist == InitPlaylist /\ [][NextPlaylist]_vars

\* ------------------------------------------ _add_liked_tracks_to_spotify
\* The run stands at line 181 with n tracks staged, each resolved to a uri of
\* its own that the playlist did not hold.
InitChunks ==
    /\ SyncOff
    /\ ResolverIdle
    /\ PodcastsOff
    /\ FetchOff
    /\ playlist = [exists |-> TRUE, page |-> {}, beyond |-> {}]
    /\ \E n \in 1..MaxLoad :
        /\ lf_tracks = [k \in 1..n |-> k]
        /\ track_k = n + 1
        /\ tracks_to_load = [k \in 1..n |-> [track |-> k, uri |-> k]]
        /\ outcomes = [k \in 1..n |-> [matched |-> TRUE, uri |-> k]]
        /\ searches = n
    /\ ppc = "add"
    /\ track_uris = {}
    /\ missed_tracks = <<>>
    /\ chunk_pos = 1
    /\ missed_file = NoMissedFile
    /\ add_calls = <<>>

NextChunks ==
    \/ AddChunk
    \/ StoreMissed

SpecChunks == InitChunks /\ [][NextChunks]_vars

\* ==================================== SpotifyService.get_liked_tracks
\* lines 61-67: the generator is created and next() is called on it.
InitFetch ==
    /\ SyncOff
    /\ ResolverIdle
    /\ PlaylistOff
    /\ PodcastsOff
    /\ fpc = "while"
    /\ all_fetched = FALSE
    /\ fetched_count = 0
    /\ offset = 0
    /\ response = NoResponse
    /\ track_n = 1
    /\ yielded = <<>>

\* lines 69-76: while not all_fetched; one request at offset, answered by
\* rsp; the counters and the flag are updated from it.
RequestPage ==
    /\ UNCHANGED nonFetchVars
    /\ fpc = "while"
    /\ ~all_fetched
    /\ \E rsp \in Responses :
          /\ fetched_count + Len(rsp.items) <= MaxFetched
          /\ response' = rsp
          /\ fetched_count' = fetched_count + Len(rsp.items)
          /\ all_fetched' = (fetched_count + Len(rsp.items) = rsp.total)
          /\ offset' = offset + Len(rsp.items)
    /\ track_n' = 1
    /\ fpc' = "for"
    /\ UNCHANGED yielded

\* line 71: current_user_saved_tracks raises; the exception leaves the
\* generator.
RequestFails ==
    /\ UNCHANGED nonFetchVars
    /\ fpc = "while"
    /\ ~all_fetched
    /\ fpc' = "failed"
    /\ UNCHANGED <<all_fetched, fetched_count, offset, response, track_n, yielded>>

\* lines 80-85: the next track of new_tracks is yielded and the consumer
\* asks for one more.
YieldTrack ==
    /\ UNCHANGED nonFetchVars
    /\ fpc = "for"
    /\ track_n <= Len(response.items)
    /\ yielded' = Append(yielded, response.items[track_n])
    /\ track_n' = track_n + 1
    /\ UNCHANGED <<fpc, all_fetched, fetched_count, offset, response>>

\* line 80: new_tracks is exhausted, back to the test of line 69.
EndOfPage ==
    /\ UNCHANGED nonFetchVars
    /\ fpc = "for"
    /\ track_n > Len(response.items)
    /\ fpc' = "while"
    /\ UNCHANGED <<all_fetched, fetched_count, offset, response, track_n, yielded>>

\* line 69: all_fetched is set, the generator returns (StopIteration).
FetchReturns ==
    /\ UNCHANGED nonFetchVars
    /\ fpc = "while"
    /\ all_fetched
    /\ fpc' = "done"
    /\ UNCHANGED <<all_fetched, fetched_count, offset, response, track_n, yielded>>

NextFetch ==
    \/ RequestPage
    \/ RequestFails
    \/ YieldTrack
    \/ EndOfPage
    \/ FetchReturns

\* The consumer's for loop (line 126) keeps calling next() on the generator
\* and the generator runs on whenever it can: weak fairness of its steps.
\* Nothing is assumed of what the service answers.
SpecFetch == InitFetch /\ [][NextFetch]_vars /\ WF_vars(NextFetch)

\* ===================================================== claims: the sync run
\* The processed set the run loaded: the ids of the cache file as it found it.
LoadedSet == Range(file0.ids)

\* The ids whose like_track call returned in this run.
NewlyProcessed == {calls[k].id : k \in {n \in 1..Len(calls) : calls[n].op = "like_track" /\ calls[n].ok}}

CallShape(c) == [op |-> c.op, id |-> c.id]

CallsMade == [k \in 1..Len(calls) |-> CallShape(calls[k])]

RECURSIVE ExpectedCalls(_)
\* get_track then like_track for every source track not in the loaded set,
\* in source order.
ExpectedCalls(s) ==
    IF s = <<>> THEN <<>>
    ELSE (IF Head(s) \in LoadedSet
          THEN <<>>
          ELSE <<[op |-> "get_track", id |-> Head(s)],
                 [op |-> "like_track", id |-> Head(s)]>>)
         \o ExpectedCalls(Tail(s))

IsPrefix(a, b) == Len(a) <= Len(b) /\ \A k \in 1..Len(a) : a[k] = b[k]

\* C1: a run that follows a completed run on the same source sequence calls
\* neither get_track nor like_track and does not rewrite the cache file.
C1_SecondRunIdempotent ==
    repeat => (calls = <<>> /\ writes = 0 /\ cache_file = file0)

\* A second run over a non-empty source, all of it processed by the first
\* run, has completed.
C1_Witness ==
    /\ repeat /\ pc = "done"
    /\ liked # <<>>
    /\ Range(liked) \subseteq LoadedSet

\* C2: in a run no call is made for a source track whose id is in the loaded
\* processed set, the calls made are get_track and like_track for the other
\* source tracks in source order, and a completed run has made all of them.
C2_SkipProcessedHandleOthers ==
    ~changed =>
        /\ \A k \in 1..Len(calls) : calls[k].id \notin LoadedSet
        /\ IsPrefix(CallsMade, ExpectedCalls(liked))
        /\ (pc = "done" =>
               /\ CallsMade = ExpectedCalls(liked)
               /\ \A k \in 1..Len(calls) : calls[k].ok)

\* A run over a source holding a processed track followed by an unprocessed
\* one (processed set {s1}, source [s1, s2]) has completed.
C2_Witness ==
    /\ pc = "done" /\ ~changed
    /\ Len(liked) >= 2
    /\ liked[1] \in LoadedSet
    /\ liked[2] \notin LoadedSet
    /\ Len(calls) = 2

\* C8: a run that finds no cache file loads the empty set without an error
\* and goes on to process every source track; so does a run that finds an
\* empty cache file.
C8_AbsentCacheLoadsEmpty ==
    (runs > 0 /\ file0.kind \in {"absent", "blank"}) =>
        /\ error # "FileNotFoundError"
        /\ (pc = "done" /\ ~changed => Range(liked) \subseteq NewlyProcessed)

\* C9: when the source is exhausted the cache file has been written iff some
\* track was newly processed in the run; what was written is the loaded set
\* united with the newly processed ids, and otherwise the file is untouched.
C9_CheckpointWritesUnionIffNew ==
    pc = "done" =>
        /\ writes <= 1
        /\ (writes = 1 <=> NewlyProcessed # {})
        /\ (writes = 1 =>
               /\ cache_file.kind = "json"
               /\ Range(cache_file.ids) = LoadedSet \cup NewlyProcessed
               /\ Len(cache_file.ids) = Cardinality(LoadedSet \cup NewlyProcessed))
        /\ (writes = 0 => cache_file = file0)

\* A completed run that loaded a non-empty set and processed a new track.
C9_Witness ==
    /\ pc = "done"
    /\ writes = 1
    /\ LoadedSet # {}
    /\ NewlyProcessed # {}
    /\ ~(NewlyProcessed \subseteq LoadedSet)

\* C10: no step of any run, completed or aborted, removes an id from the
\* cache file.
C10_CacheGrowsMonotonically ==
    [][Range(cache_file.ids) \subseteq Range(cache_file'.ids)]_vars

\* A run that loaded a non-empty set was aborted after it had liked a track.
C10_Witness ==
    /\ pc = "failed"
    /\ LoadedSet # {}
    /\ NewlyProcessed # {}
    /\ Range(cache_file.ids) = LoadedSet

\* ==================================================== claims: the resolver
\* The candidates of the search result in the caller-supplied order: every
\* (item, artist) pair, items in order, the artists of an item in order.
CandidatesOfItem(i) == [j \in 1..Len(search_results.items[i].artists) |-> <<i, j>>]

RECURSIVE CandidatesFrom(_)
CandidatesFrom(i) ==
    IF i > Len(search_results.items) THEN <<>>
    ELSE CandidatesOfItem(i) \o CandidatesFrom(i + 1)

AllCandidates == CandidatesFrom(1)

SongScore(c) == search_results.items[c[1]].song_ratio

ArtistScore(c) == search_results.items[c[1]].artists[c[2]]

\* The tiers as the specification words them.
TierAuto(c) == ArtistScore(c) >= 85 /\ SongScore(c) >= 85

TierAmbiguous(c) == ArtistScore(c) + SongScore(c) >= 140 /\ ~TierAuto(c)

\* The human said yes: a "y", in either case, blanks around it ignored.
SaidYes(answer) == answer \in {"y", " Y "}

PromptsOf(c) == {k \in 1..Len(prompts) : prompts[k].cand = c}

\* The candidate satisfies a tier: auto-accepted, or ambiguous and confirmed.
Accepted(c) ==
    \/ TierAuto(c)
    \/ TierAmbiguous(c) /\ \E k \in PromptsOf(c) : SaidYes(prompts[k].answer)

PromptedCandidates == [k \in 1..Len(prompts) |-> prompts[k].cand]

\* C3: a candidate reached with both ratios >= 85 is returned at once, as a
\* SyncTrack carrying its uri, and the human is not asked about it.
C3_AutoAcceptReturnsWithoutPrompt ==
    \A k \in 1..Len(scored) :
        TierAuto(scored[k]) =>
            /\ rpc = "returned"
            /\ result.matched
            /\ result.cand = scored[k]
            /\ result.uri = search_results.items[scored[k][1]].uri
            /\ PromptsOf(scored[k]) = {}

\* An auto-accept candidate was reached after another candidate and returned.
C3_Witness ==
    /\ rpc = "returned"
    /\ Len(scored) >= 2
    /\ TierAuto(scored[Len(scored)])
    /\ result.uri = 2

\* C4: the prompts are, in order and once each, the ambiguous-tier candidates
\* among those examined; only the last prompt can have been answered yes, and
\* then its candidate is the match returned.
C4_AmbiguousPromptedOnceInOrder ==
    /\ PromptedCandidates = SelectSeq(scored, TierAmbiguous)
    /\ \A k \in 1..Len(prompts) :
          SaidYes(prompts[k].answer) =>
              /\ k = Len(prompts)
              /\ rpc = "returned"
              /\ result.matched
              /\ result.cand = prompts[k].cand

\* Two ambiguous candidates were asked about, the first declined, the second
\* confirmed and returned while a candidate was still left.
C4_Witness ==
    /\ rpc = "returned"
    /\ Len(prompts) = 2
    /\ ~SaidYes(prompts[1].answer)
    /\ SaidYes(prompts[2].answer)
    /\ Len(scored) < Len(AllCandidates)

\* C5: when nobody is at the terminal (non-interactive mode) the resolver
\* never waits on the prompt and never asks; the ambiguous candidates count
\* as declined.
C5_NonInteractiveNeverPrompts ==
    ~interactive =>
        /\ rpc \notin {"prompt", "error"}
        /\ prompts = <<>>

\* C6: candidates are examined in the caller's order without a gap; a match
\* returned is the first candidate that satisfies a tier and the last one
\* examined or asked about; a search that returns nothing examined them all.
C6_FirstMatchWins ==
    /\ IsPrefix(scored, AllCandidates)
    /\ \A k \in 1..Len(prompts) : \E n \in 1..Len(scored) : scored[n] = prompts[k].cand
    /\ (rpc = "returned" /\ result.matched =>
           /\ scored # <<>>
           /\ result.cand = scored[Len(scored)]
           /\ Accepted(result.cand)
           /\ \A k \in 1..(Len(scored) - 1) : ~Accepted(scored[k]))
    /\ (rpc = "returned" /\ ~result.matched => scored = AllCandidates)

\* A declined ambiguous candidate was followed by a match, with a candidate
\* still left after it.
C6_Witness ==
    /\ rpc = "returned"
    /\ result.matched
    /\ Len(scored) >= 2
    /\ TierAmbiguous(scored[1])
    /\ Len(scored) < Len(AllCandidates)

\* C7: the resolver returns no match exactly when the list is empty or no
\* candidate of the whole list satisfies a tier, and a match returned has a
\* combined score of at least 140.
C7_NoMatchIffNoneAccepted ==
    rpc = "returned" =>
        /\ ~result.matched <=>
               \/ search_results.items = <<>>
               \/ \A k \in 1..Len(AllCandidates) : ~Accepted(AllCandidates[k])
        /\ result.matched => ArtistScore(result.cand) + SongScore(result.cand) >= 140

\* Every candidate of a non-empty list was examined, one of them ambiguous
\* and declined, and nothing was returned.
C7_Witness ==
    /\ rpc = "returned"
    /\ ~result.matched
    /\ Len(AllCandidates) >= 2
    /\ prompts # <<>>

\* ============================================ claims: failures of a sync run
CollaboratorFailed ==
    pc = "failed" /\ error \in {"get_liked_tracks", "get_track", "like_track"}

LikeCallsFor(id) == {k \in 1..Len(calls) : calls[k].op = "like_track" /\ calls[k].id = id}

\* C11: a run ended by a failure of the source fetch, of get_track or of
\* like_track has made no call after the one that failed and has left the
\* cache file as it found it.
C11_FailureLeavesCacheIntact ==
    /\ CollaboratorFailed =>
          /\ cache_file = file0
          /\ writes = 0
          /\ (error # "get_liked_tracks" => calls # <<>> /\ ~calls[Len(calls)].ok)
    /\ \A k \in 1..(Len(calls) - 1) : calls[k].ok

\* A run over a non-empty cache was ended by get_track raising for its second
\* unprocessed track.
C11_Witness ==
    /\ CollaboratorFailed
    /\ error = "get_track"
    /\ LoadedSet # {}
    /\ Len(calls) = 3

\* C12 as stated: when get_track or like_track fails, the ids liked earlier
\* in the run are in the cache file.
C12_PartialProgressPersisted ==
    (pc = "failed" /\ error \in {"get_track", "like_track"}) =>
        NewlyProcessed \subseteq Range(cache_file.ids)

\* C12 as amended: when get_track or like_track fails, none of the ids liked
\* earlier in the run is in the cache file, so a retry handles them again.
C12_PartialProgressLost ==
    (pc = "failed" /\ error \in {"get_track", "like_track"}) =>
        /\ NewlyProcessed \cap Range(cache_file.ids) = {}
        /\ \A id \in NewlyProcessed : ~IsCached(id, Range(LoadProcessedTracks(cache_file).ids))

\* like_track raised for the second track after the first had been liked.
C12_Witness ==
    /\ pc = "failed"
    /\ error = "like_track"
    /\ NewlyProcessed # {}
    /\ Len(calls) = 4

\* C17: an id is in new_ids only once like_track has returned for it in this
\* run, and every id in the cache file was in the file the run found or was
\* liked in the run; every id ever persisted has been loved on the target.
C17_RecordedOnlyAfterLiked ==
    /\ new_ids \subseteq NewlyProcessed
    /\ Range(cache_file.ids) \subseteq Range(file0.ids) \cup NewlyProcessed
    /\ Range(cache_file.ids) \subseteq loved

\* The second run has persisted a second id on top of the first run's.
C17_Witness ==
    /\ pc = "done"
    /\ runs = 2
    /\ writes = 1
    /\ Cardinality(Range(file0.ids)) = 1
    /\ Cardinality(Range(cache_file.ids)) = 2

\* C19: in one run like_track is applied at most once for an id, also when
\* the source sequence yields the id more than once.
C19_LikeAtMostOncePerRun ==
    \A id \in TrackIds : Cardinality(LikeCallsFor(id)) <= 1

\* ======================================== the podcast notification service
\* __init__ (lines 52-54): a service with no source and no subscriber.
InitPodcasts ==
    /\ SyncOff
    /\ ResolverIdle
    /\ PlaylistOff
    /\ FetchOff
    /\ sources = <<>>
    /\ subscibers = <<>>
    /\ qpc = "idle"
    /\ source_n = 1
    /\ new_items = <<>>
    /\ item = None
    /\ item_n = 1
    /\ errors = {}
    /\ sources0 = <<>>
    /\ returned = <<>>
    /\ notified = <<>>

\* lines 56-59: register_source(source), source an instance of cls whose
\* last processed item is last.
RegisterSource ==
    /\ UNCHANGED nonPodcastVars
    /\ qpc = "idle"
    /\ Len(sources) < MaxSources
    /\ \E cls \in SourceClasses, last \in {None} \cup PodcastItems :
          IF ~IsInstanceOfAbstractPodcastSource(cls)
          THEN /\ errors' = errors \cup {cls}
               /\ UNCHANGED sources
          ELSE /\ sources' = Append(sources, [cls |-> cls, last_processed_item |-> last])
               /\ UNCHANGED errors
    /\ UNCHANGED <<subscibers, qpc, source_n, new_items, item, item_n, sources0,
                   returned, notified>>

\* lines 61-64: register_subsciber(subsciber); is_callable is callable(subsciber).
RegisterSubsciber ==
    /\ UNCHANGED nonPodcastVars
    /\ qpc = "idle"
    /\ Len(subscibers) < MaxSubscibers
    /\ \E is_callable \in BOOLEAN :
          IF ~is_callable
          THEN /\ errors' = errors \cup {"subsciber"}
               /\ UNCHANGED subscibers
          ELSE /\ subscibers' = Append(subscibers, Len(subscibers) + 1)
               /\ UNCHANGED errors
    /\ UNCHANGED <<sources, qpc, source_n, new_items, item, item_n, sources0,
                   returned, notified>>

\* lines 70-72: check_new_podcasts() is called.
CheckNewPodcasts ==
    /\ UNCHANGED nonPodcastVars
    /\ qpc = "idle"
    /\ sources0' = sources
    /\ source_n' = 1
    /\ qpc' = IF sources = <<>> THEN "done" ELSE "source"
    /\ UNCHANGED <<sources, subscibers, new_items, item, item_n, errors, returned,
                   notified>>

\* lines 73-75: item = source.get_last_processed();
\* items = source.get_items_after(item) or [].
GetItemsAfter ==
    /\ UNCHANGED nonPodcastVars
    /\ qpc = "source"
    /\ item' = sources[source_n].last_processed_item
    /\ \E its \in ItemLists :
          /\ new_items' = its
          /\ returned' = Append(returned, its)
    /\ item_n' = 1
    /\ qpc' = "items"
    /\ UNCHANGED <<sources, subscibers, source_n, errors, sources0, notified>>

\* lines 76-77 and 66-68: the next item of items is bound to item and every
\* subscriber is called with it, in the order of registration.
NotifyAboutNewItem ==
    /\ UNCHANGED nonPodcastVars
    /\ qpc = "items"
    /\ item_n <= Len(new_items)
    /\ item' = new_items[item_n]
    /\ notified' = notified \o [k \in 1..Len(subscibers) |->
                       [sub |-> subscibers[k], item |-> new_items[item_n],
                        source |-> source_n]]
    /\ item_n' = item_n + 1
    /\ UNCHANGED <<sources, subscibers, qpc, source_n, new_items, errors, sources0,
                   returned>>

\* line 79: source.set_last_processed(item), item being what the loop left
\* in it; then the next source.
SetLastProcessed ==
    /\ UNCHANGED nonPodcastVars
    /\ qpc = "items"
    /\ item_n > Len(new_items)
    /\ sources' = [sources EXCEPT ![source_n].last_processed_item = item]
    /\ IF source_n < Len(sources)
       THEN /\ source_n' = source_n + 1
            /\ qpc' = "source"
       ELSE /\ qpc' = "done"
            /\ UNCHANGED source_n
    /\ UNCHANGED <<subscibers, new_items, item, item_n, errors, sources0, returned,
                   notified>>

NextPodcasts ==
    \/ RegisterSource
    \/ RegisterSubsciber
    \/ CheckNewPodcasts
    \/ GetItemsAfter
    \/ NotifyAboutNewItem
    \/ SetLastProcessed

SpecPodcasts == InitPodcasts /\ [][NextPodcasts]_vars

\* ================================================ claims: the playlist run
RECURSIVE Flatten(_)
\* The chunks of a sequence of chunks, one after the other.
Flatten(chunks) ==
    IF chunks = <<>> THEN <<>> ELSE Head(chunks) \o Flatten(Tail(chunks))

\* The uris of the resolved tracks in the order they were resolved.
StagedUris == [k \in 1..Len(tracks_to_load) |-> tracks_to_load[k].uri]

\* The uris handed to playlist_add_items over the whole run, in order.
AddedUris == Flatten(add_calls)

AddedCount(u) == Cardinality({k \in 1..Len(AddedUris) : AddedUris[k] = u})

\* Every uri the destination playlist held when the run started.
InPlaylistAtStart == playlist.page \cup playlist.beyond

\* C13: playlist_add_items is called with consecutive chunks of the resolved
\* uris: no chunk is empty, every chunk but the last holds exactly 100 uris,
\* the last at most 100, and once the loading is over the chunks put together
\* are the resolved uris in the order they were resolved.
C13_ChunksOfHundredInOrder ==
    /\ \A k \in 1..Len(add_calls) :
          /\ add_calls[k] # <<>>
          /\ Len(add_calls[k]) <= 100
          /\ (k < Len(add_calls) => Len(add_calls[k]) = 100)
    /\ IsPrefix(AddedUris, StagedUris)
    /\ (ppc \in {"store", "done"} /\ tracks_to_load # <<>> => AddedUris = StagedUris)

\* A list of more than 200 tracks was loaded in three chunks, the last one
\* partial.
C13_Witness ==
    /\ ppc = "done"
    /\ Len(add_calls) = 3
    /\ Len(add_calls[3]) < 100

\* C14: at the end of a run a loved track is on the missed list iff the
\* resolver returned no match for it.
C14_MissedIffNoMatch ==
    ppc = "done" =>
        /\ \A k \in 1..Len(lf_tracks) :
              (\E n \in 1..Len(missed_tracks) : missed_tracks[n] = lf_tracks[k])
                  <=> ~outcomes[k].matched
        /\ (missed_file.written => missed_file.tracks = missed_tracks)

\* C15: no uri the destination playlist held when the run started is passed
\* to playlist_add_items.
C15_NeverAddsWhatPlaylistHolds ==
    \A k \in 1..Len(AddedUris) : AddedUris[k] \notin InPlaylistAtStart

\* C18: when the destination playlist does not exist the run fails before
\* any search, any prompt, any playlist_add_items call and any write of the
\* missed-track file.
C18_NoPlaylistFailsFirst ==
    (~playlist.exists /\ ppc \notin {"idle", "off"}) =>
        /\ ppc = "failed"
        /\ searches = 0
        /\ rpc = "idle"
        /\ prompts = <<>>
        /\ scored = <<>>
        /\ add_calls = <<>>
        /\ ~missed_file.written

\* A run with loved tracks to handle found no playlist and failed.
C18_Witness ==
    /\ ~playlist.exists
    /\ ppc = "failed"
    /\ lf_tracks # <<>>

\* C20: over a whole run a uri is passed to playlist_add_items at most once,
\* also when two loved tracks resolve to it.
C20_UriAddedAtMostOnce ==
    \A u \in TargetUris : AddedCount(u) <= 1

\* ============================================ claims: the podcast service
\* The calls of subscriber sub for the items of the n-th source, in order.
RECURSIVE NotifiedItems(_, _, _)
NotifiedItems(log, sub, n) ==
    IF log = <<>> THEN <<>>
    ELSE (IF Head(log).sub = sub /\ Head(log).source = n
          THEN <<Head(log).item>> ELSE <<>>) \o NotifiedItems(Tail(log), sub, n)

\* C16: a PodcastInitSource handed to register_source is registered, and
\* after check_new_podcasts every subscriber has been called once for each
\* item a source returned, in the returned order, and the last processed
\* item of the source is the last item returned, or its previous value when
\* nothing was returned.
C16_RegisteredNotifiedAndAdvanced ==
    /\ "PodcastInitSource" \notin errors
    /\ qpc = "done" =>
          \A n \in 1..Len(sources) :
             /\ \A k \in 1..Len(subscibers) :
                   NotifiedItems(notified, subscibers[k], n) = returned[n]
             /\ sources[n].last_processed_item =
                   IF returned[n] = <<>> THEN sources0[n].last_processed_item
                   ELSE returned[n][Len(returned[n])]

\* ============================================== claims: the paged fetch
\* C21: get_liked_tracks terminates (it returns or raises) whatever the
\* responses are, also when a page comes back empty before the reported
\* total is reached and when the fetched count steps over the total.
C21_FetchTerminates == <>(fpc \in {"done", "failed"})

====
